---------------------------- MODULE Spec2Model ----------------------------
(***************************************************************************)
(* libflate, src/deflate/encode.rs: the DEFLATE block encoder.             *)
(*                                                                         *)
(* EncodeOptions (builder) -> Encoder { writer: BitWriter, block: Block }  *)
(* -> Block { block_type, block_size, block_buf: BlockBuf } -> RawBuf or   *)
(* CompressBuf.  The bit writer, the LZ77 match-finder and the Huffman     *)
(* codecs live in other files of the crate; they are modelled here from    *)
(* their contracts and are marked as such where they are defined.          *)
(*                                                                         *)
(* A byte string (Vec<u8>, &[u8]) is held run-length encoded: a sequence   *)
(* of runs [b |-> byte, n |-> count] with n > 0 and no two neighbouring    *)
(* runs of the same byte, so that a buffer of 65536 bytes is one run.      *)
(* Two byte strings are equal exactly when their run sequences are equal.  *)
(***************************************************************************)
EXTENDS Integers, Sequences, FiniteSets, TLC

\* ------------------------------------------------------------ constants

DEFAULT_BLOCK_SIZE == 1048576

MAX_NON_COMPRESSED_BLOCK_SIZE == 65535

\* RFC 1951: the shortest and the longest match a length code can express.
MIN_MATCH == 3

MAX_MATCH == 258

\* -------------------------------------------------------------- bounds

\* Lengths 1..SmallLen of the short buffers passed to write, and the block
\* sizes 0..SmallLen passed to the block_size builder.
SmallLen == 2

\* Number of write calls in one run of an encoder.
MaxWrites == 2

\* The sink operation of a call that fails is the FailAt-th one the call
\* makes, for FailAt in 1..MaxFailAt; 0 means that none fails.
MaxFailAt == 7

\* --------------------------------------------------------- byte strings

Min(a, b) == IF a <= b THEN a ELSE b

Run(b, n) == [b |-> b, n |-> n]

\* Vec::len / slice::len
RECURSIVE BLen(_)
BLen(s) == IF s = <<>> THEN 0 ELSE Head(s).n + BLen(Tail(s))

\* Vec::extend: s followed by t.
BCat(s, t) ==
    IF s = <<>> THEN t
    ELSE IF t = <<>> THEN s
    ELSE IF s[Len(s)].b = t[1].b
         THEN SubSeq(s, 1, Len(s) - 1)
                \o <<Run(t[1].b, s[Len(s)].n + t[1].n)>>
                \o Tail(t)
         ELSE s \o t

\* &s[..k]: the first k bytes of s (all of s when it is shorter).
RECURSIVE BTake(_, _)
BTake(s, k) ==
    IF k <= 0 \/ s = <<>> THEN <<>>
    ELSE IF Head(s).n <= k
         THEN <<Head(s)>> \o BTake(Tail(s), k - Head(s).n)
         ELSE <<Run(Head(s).b, k)>>

\* s.drain(0..k): s without its first k bytes.
RECURSIVE BDrop(_, _)
BDrop(s, k) ==
    IF k <= 0 \/ s = <<>> THEN s
    ELSE IF Head(s).n <= k
         THEN BDrop(Tail(s), k - Head(s).n)
         ELSE <<Run(Head(s).b, Head(s).n - k)>> \o Tail(s)

\* s[i], 1 <= i <= BLen(s)
RECURSIVE BAt(_, _)
BAt(s, i) == IF i <= Head(s).n THEN Head(s).b ELSE BAt(Tail(s), i - Head(s).n)

\* ------------------------------------------------------------- results

\* io::Result: Ok(n), or Err of the sink operation that failed (the `at`-th
\* operation of the call, named `op`).  Diverges is the outcome of a call
\* that does not return.
Ok(n) == [kind |-> "Ok", n |-> n, op |-> "", at |-> 0]

Err(op, at) == [kind |-> "Err", n |-> 0, op |-> op, at |-> at]

Diverges == [kind |-> "Diverges", n |-> 0, op |-> "", at |-> 0]

IsOk(r) == r.kind = "Ok"

\* ------------------------------------------------------ symbols, codes

\* symbol::Symbol
Literal(b) == [sym |-> "Literal", byte |-> b, length |-> 0, distance |-> 0]

Share(length, distance) ==
    [sym |-> "Share", byte |-> 0, length |-> length, distance |-> distance]

EndOfBlock == [sym |-> "EndOfBlock", byte |-> 0, length |-> 0, distance |-> 0]

\* lz77::Code
CodeLiteral(b) == [code |-> "Literal", byte |-> b, length |-> 0, backward_distance |-> 0]

CodePointer(length, backward_distance) ==
    [code |-> "Pointer", byte |-> 0, length |-> length,
     backward_distance |-> backward_distance]

\* impl lz77::Sink for Vec<symbol::Symbol>: consume(code) pushes the symbol
\* of the code.
Sink_consume(self, code) ==
    LET symbol == IF code.code = "Literal"
                  THEN Literal(code.byte)
                  ELSE Share(code.length, code.backward_distance)
    IN  Append(self, symbol)

\* The codes of one encode or flush call, consumed in the order the
\* match-finder emits them (the sequence is walked by halves, the first
\* half before the second, to keep the evaluation shallow).
RECURSIVE Sink_consume_all(_, _)
Sink_consume_all(self, codes) ==
    IF codes = <<>> THEN self
    ELSE IF Len(codes) = 1 THEN Sink_consume(self, codes[1])
    ELSE LET half == Len(codes) \div 2
             s1 == Sink_consume_all(self, SubSeq(codes, 1, half))
         IN  IF Len(s1) >= 0   \* always: the first half is consumed first
             THEN Sink_consume_all(s1, SubSeq(codes, half + 1, Len(codes)))
             ELSE s1

\* ------------------------------------------------ the LZ77 match-finder
\* A match-finder keeps up to `lookahead` of the newest bytes unresolved
\* (pending) and remembers the byte it resolved last (prev, -1 at the
\* start).  It codes a byte that repeats the byte before it, in a run of at
\* least MIN_MATCH, as a pointer of distance 1, and every other byte as a
\* literal.

Lz77(lookahead) == [lookahead |-> lookahead, pending |-> <<>>, prev |-> -1]

\* The codes of a run of n bytes b that follows the byte prev: a literal
\* when the run starts a new byte, then pointers of up to MAX_MATCH bytes
\* while at least MIN_MATCH bytes of the run are left, then literals.
RunCodes(b, n, prev) ==
    LET first == IF prev = b \/ n = 0 THEN 0 ELSE 1
        rest  == n - first
        full  == IF rest >= MIN_MATCH THEN rest \div MAX_MATCH ELSE 0
        tail  == rest - full * MAX_MATCH
    IN  [i \in 1..first |-> CodeLiteral(b)]
          \o [i \in 1..full |-> CodePointer(MAX_MATCH, 1)]
          \o (IF tail >= MIN_MATCH
               THEN <<CodePointer(tail, 1)>>
               ELSE [i \in 1..tail |-> CodeLiteral(b)])

RECURSIVE Lz77Codes(_, _)
Lz77Codes(bytes, prev) ==
    IF bytes = <<>> THEN <<>>
    ELSE RunCodes(Head(bytes).b, Head(bytes).n, prev)
           \o Lz77Codes(Tail(bytes), Head(bytes).b)

LastByte(bytes, prev) == IF bytes = <<>> THEN prev ELSE bytes[Len(bytes)].b

\* Lz77Encode::encode(buf, sink)
Lz77_encode(self, buf, sink) ==
    LET data    == BCat(self.pending, buf)
        keep    == Min(self.lookahead, BLen(data))
        resolve == BTake(data, BLen(data) - keep)
    IN  [lz77 |-> [self EXCEPT !.pending = BDrop(data, BLen(data) - keep),
                               !.prev = LastByte(resolve, self.prev)],
         sink |-> Sink_consume_all(sink, Lz77Codes(resolve, self.prev))]

\* Lz77Encode::flush(sink)
Lz77_flush(self, sink) ==
    [lz77 |-> [self EXCEPT !.pending = <<>>,
                           !.prev = LastByte(self.pending, self.prev)],
     sink |-> Sink_consume_all(sink, Lz77Codes(self.pending, self.prev))]

\* ------------------------------------------------------- the bit writer
\* bit::BitWriter<W> over the sink W.  `out` is what has been written, in
\* order, as tokens: a header bit, a group of bits, a byte-align, a 16-bit
\* little-endian word, a run of bytes, a Huffman table, a coded symbol.
\* `ops` are the operations the current call has attempted and `failAt` is
\* the one of them that the sink fails (0: none).

Token(k, w, v) == [k |-> k, w |-> w, v |-> v]

NewWriter == [out |-> <<>>, ops |-> <<>>, failAt |-> 0]

\* One fallible operation: it fails, writing nothing, when it is the
\* failAt-th of the call, and appends its tokens otherwise.
SinkOp(writer, op, tokens) ==
    LET at == Len(writer.ops) + 1
        w  == [writer EXCEPT !.ops = Append(@, op)]
    IN  IF at = writer.failAt
        THEN [writer |-> w, result |-> Err(op, at)]
        ELSE [writer |-> [w EXCEPT !.out = @ \o tokens], result |-> Ok(0)]

BitWriter_write_bit(writer, bit) ==
    SinkOp(writer, "write_bit", <<Token("bit", 1, IF bit THEN 1 ELSE 0)>>)

BitWriter_write_bits(writer, width, bits) ==
    SinkOp(writer, "write_bits", <<Token("bits", width, bits)>>)

BitWriter_flush(writer) == SinkOp(writer, "flush", <<Token("align", 0, 0)>>)

\* as_inner_mut().write_u16::<LittleEndian>(v)
Inner_write_u16(writer, v) == SinkOp(writer, "write_u16", <<Token("u16", 16, v)>>)

\* as_inner_mut().write_all(bytes)
Inner_write_all(writer, bytes) ==
    SinkOp(writer, "write_all", <<Token("bytes", 8, bytes)>>)

\* as_inner_mut().flush()
Inner_flush(writer) == SinkOp(writer, "inner_flush", <<>>)

\* ---------------------------------------------------- the Huffman codecs
\* symbol::HuffmanCodec: build a table from the symbols of the block, save
\* it (the fixed codec has nothing to save), encode one symbol with it.

Huffman_build(huffman, symbols) == [codec |-> huffman, size |-> Len(symbols)]

Huffman_save(huffman, writer, symbol_encoder) ==
    IF huffman = "Fixed"
    THEN [writer |-> writer, result |-> Ok(0)]
    ELSE SinkOp(writer, "save", <<Token("table", 0, symbol_encoder.size)>>)

Huffman_encode(symbol_encoder, writer, s) ==
    SinkOp(writer, "encode", <<Token("code", 0, s)>>)

\* ----------------------------------------------------------------- try!
\* try!(e) inside a method of `self`: when the sink operation e failed the
\* method returns its error at once, with `self` as it is at that point;
\* otherwise the method goes on (rest) with the writer as e left it.
Try(self, e, rest(_)) ==
    IF IsOk(e.result) THEN rest(e.writer)
    ELSE [self |-> self, writer |-> e.writer, result |-> e.result]

\* try!(self.block_buf.flush(writer)) inside a method of Block: the block
\* buffer is as the flush left it, whether the flush failed or not.
TryFlush(self, e, rest(_, _)) ==
    IF IsOk(e.result) THEN rest([self EXCEPT !.block_buf = e.self], e.writer)
    ELSE [self |-> [self EXCEPT !.block_buf = e.self],
          writer |-> e.writer, result |-> e.result]

\* -------------------------------------------------------- EncodeOptions

\* Option<E>
None == <<>>

Some(x) == <<x>>

is_none(o) == o = <<>>

\* The match-finder of EncodeOptions::new().
DefaultLz77Encoder == Lz77(1)

\* EncodeOptions::with_lz77
with_lz77(lz77) ==
    [block_size |-> DEFAULT_BLOCK_SIZE, dynamic_huffman |-> TRUE, lz77 |-> Some(lz77)]

\* EncodeOptions::new
EncodeOptions_new == with_lz77(DefaultLz77Encoder)

no_compression(self) == [self EXCEPT !.lz77 = None]

block_size(self, size) == [self EXCEPT !.block_size = size]

dynamic_huffman_codes(self) == [self EXCEPT !.dynamic_huffman = TRUE]

fixed_huffman_codes(self) == [self EXCEPT !.dynamic_huffman = FALSE]

\* get_block_type with the two Huffman arms swapped.
get_block_type_swapped(self) ==
    IF is_none(self.lz77) THEN "Raw"
    ELSE IF self.dynamic_huffman THEN "Fixed"
    ELSE "Dynamic"

get_block_type(self) ==
    IF is_none(self.lz77) THEN "Raw"
    ELSE IF self.dynamic_huffman THEN "Dynamic"
    ELSE "Fixed"

\* get_block_size without the cmp::min of the raw arm.
get_block_size_unclamped(self) == self.block_size

get_block_size(self) ==
    IF is_none(self.lz77)
    THEN Min(self.block_size, MAX_NON_COMPRESSED_BLOCK_SIZE)
    ELSE self.block_size

\* BlockType as u16
BlockTypeCode(block_type) ==
    CASE block_type = "Raw" -> 0
      [] block_type = "Fixed" -> 1
      [] block_type = "Dynamic" -> 2

\* --------------------------------------------------------------- RawBuf

RawBuf_new == [variant |-> "Raw", buf |-> <<>>]

RawBuf_append(self, buf) == [self EXCEPT !.buf = BCat(@, buf)]

RawBuf_len(self) == BLen(self.buf)

\* `size as u16`
AsU16(x) == x % 65536

\* `!size as u16`: the low 16 bits of the complement of a usize are the
\* complement of its low 16 bits.
NotAsU16(x) == 65535 - (x % 65536)

\* RawBuf::flush with the drain before the write of the payload.
RawBuf_flush_draining_first(self, writer) ==
    LET size == Min(BLen(self.buf), MAX_NON_COMPRESSED_BLOCK_SIZE)
        drained == [self EXCEPT !.buf = BDrop(@, size)]
    IN  Try(self, BitWriter_flush(writer), LAMBDA w1 :
        Try(self, Inner_write_u16(w1, AsU16(size)), LAMBDA w2 :
        Try(self, Inner_write_u16(w2, NotAsU16(size)), LAMBDA w3 :
        Try(drained, Inner_write_all(w3, BTake(self.buf, size)), LAMBDA w4 :
            [self |-> drained, writer |-> w4, result |-> Ok(0)]))))

\* RawBuf::flush without the writer.flush() before LEN.
RawBuf_flush_without_align(self, writer) ==
    LET size == Min(BLen(self.buf), MAX_NON_COMPRESSED_BLOCK_SIZE)
    IN  Try(self, Inner_write_u16(writer, AsU16(size)), LAMBDA w2 :
        Try(self, Inner_write_u16(w2, NotAsU16(size)), LAMBDA w3 :
        Try(self, Inner_write_all(w3, BTake(self.buf, size)), LAMBDA w4 :
            [self   |-> [self EXCEPT !.buf = BDrop(@, size)],
             writer |-> w4,
             result |-> Ok(0)])))

\* RawBuf::flush with a payload limit one byte short of the constant.
RawBuf_flush_short(self, writer) ==
    LET size == Min(BLen(self.buf), MAX_NON_COMPRESSED_BLOCK_SIZE - 1)
    IN  Try(self, BitWriter_flush(writer), LAMBDA w1 :
        Try(self, Inner_write_u16(w1, AsU16(size)), LAMBDA w2 :
        Try(self, Inner_write_u16(w2, NotAsU16(size)), LAMBDA w3 :
        Try(self, Inner_write_all(w3, BTake(self.buf, size)), LAMBDA w4 :
            [self   |-> [self EXCEPT !.buf = BDrop(@, size)],
             writer |-> w4,
             result |-> Ok(0)]))))

\* RawBuf::flush returning at once when nothing is buffered.
RawBuf_flush_skipping_empty(self, writer) ==
    LET size == Min(BLen(self.buf), MAX_NON_COMPRESSED_BLOCK_SIZE)
    IN  IF size = 0
        THEN [self |-> self, writer |-> writer, result |-> Ok(0)]
        ELSE
        Try(self, BitWriter_flush(writer), LAMBDA w1 :
        Try(self, Inner_write_u16(w1, AsU16(size)), LAMBDA w2 :
        Try(self, Inner_write_u16(w2, NotAsU16(size)), LAMBDA w3 :
        Try(self, Inner_write_all(w3, BTake(self.buf, size)), LAMBDA w4 :
            [self   |-> [self EXCEPT !.buf = BDrop(@, size)],
             writer |-> w4,
             result |-> Ok(0)]))))

\* RawBuf::flush without the cmp::min: the whole buffer is one block.
RawBuf_flush_unclamped(self, writer) ==
    LET size == BLen(self.buf)
    IN  Try(self, BitWriter_flush(writer), LAMBDA w1 :
        Try(self, Inner_write_u16(w1, AsU16(size)), LAMBDA w2 :
        Try(self, Inner_write_u16(w2, NotAsU16(size)), LAMBDA w3 :
        Try(self, Inner_write_all(w3, BTake(self.buf, size)), LAMBDA w4 :
            [self   |-> [self EXCEPT !.buf = BDrop(@, size)],
             writer |-> w4,
             result |-> Ok(0)]))))

RawBuf_flush(self, writer) ==
    LET size == Min(BLen(self.buf), MAX_NON_COMPRESSED_BLOCK_SIZE)
    IN  Try(self, BitWriter_flush(writer), LAMBDA w1 :
        Try(self, Inner_write_u16(w1, AsU16(size)), LAMBDA w2 :
        Try(self, Inner_write_u16(w2, NotAsU16(size)), LAMBDA w3 :
        Try(self, Inner_write_all(w3, BTake(self.buf, size)), LAMBDA w4 :
            [self   |-> [self EXCEPT !.buf = BDrop(@, size)],
             writer |-> w4,
             result |-> Ok(0)]))))

\* ---------------------------------------------------------- CompressBuf

CompressBuf_new(huffman, lz77) ==
    [variant |-> huffman, huffman |-> huffman, lz77 |-> lz77,
     buf |-> <<>>, original_size |-> 0]

\* CompressBuf::append with `=` for `+=`.
CompressBuf_append_overwriting_size(self, buf) ==
    LET e == Lz77_encode(self.lz77, buf, self.buf)
    IN  [self EXCEPT !.original_size = BLen(buf),
                     !.lz77 = e.lz77,
                     !.buf = e.sink]

CompressBuf_append(self, buf) ==
    LET e == Lz77_encode(self.lz77, buf, self.buf)
    IN  [self EXCEPT !.original_size = @ + BLen(buf),
                     !.lz77 = e.lz77,
                     !.buf = e.sink]

CompressBuf_len(self) == self.original_size

\* for s in self.buf.drain(..) { try!(symbol_encoder.encode(writer, s)); }
\* The symbols are encoded from first to last and the loop is left at the
\* first encode that fails; the sequence is walked by halves, the first half
\* before the second, to keep the evaluation shallow.
RECURSIVE EncodeDrain(_, _, _)
EncodeDrain(symbol_encoder, writer, symbols) ==
    IF symbols = <<>> THEN [self |-> <<>>, writer |-> writer, result |-> Ok(0)]
    ELSE IF Len(symbols) = 1
         THEN Try(<<>>, Huffman_encode(symbol_encoder, writer, symbols[1]),
                  LAMBDA w : [self |-> <<>>, writer |-> w, result |-> Ok(0)])
    ELSE LET half == Len(symbols) \div 2
         IN  Try(<<>>, EncodeDrain(symbol_encoder, writer, SubSeq(symbols, 1, half)),
                 LAMBDA w : EncodeDrain(symbol_encoder, w,
                                        SubSeq(symbols, half + 1, Len(symbols))))

\* CompressBuf::flush without its first line: the bytes the match-finder
\* still holds are not made symbols of the block.
CompressBuf_flush_without_lz77_flush(self, writer) ==
    LET symbols == Append(self.buf, EndOfBlock)
        pushed  == [self EXCEPT !.buf = symbols]
        drained == [pushed EXCEPT !.buf = <<>>]
        symbol_encoder == Huffman_build(self.huffman, symbols)
    IN  Try(pushed, Huffman_save(self.huffman, writer, symbol_encoder), LAMBDA w1 :
        Try(drained, EncodeDrain(symbol_encoder, w1, symbols), LAMBDA w2 :
            [self   |-> [drained EXCEPT !.original_size = 0],
             writer |-> w2,
             result |-> Ok(0)]))

\* The lz77 flush and the EndOfBlock push come before the first fallible
\* step, so they stay done when a later step fails.  The drain leaves buf
\* empty whether the loop runs to its end or is left by try!;
\* original_size is reset only on the path that reaches the end.
CompressBuf_flush(self, writer) ==
    LET f       == Lz77_flush(self.lz77, self.buf)
        symbols == Append(f.sink, EndOfBlock)
        pushed  == [self EXCEPT !.lz77 = f.lz77, !.buf = symbols]
        drained == [pushed EXCEPT !.buf = <<>>]
        symbol_encoder == Huffman_build(self.huffman, symbols)
    IN  Try(pushed, Huffman_save(self.huffman, writer, symbol_encoder), LAMBDA w1 :
        Try(drained, EncodeDrain(symbol_encoder, w1, symbols), LAMBDA w2 :
            [self   |-> [drained EXCEPT !.original_size = 0],
             writer |-> w2,
             result |-> Ok(0)]))

\* ------------------------------------------------------------- BlockBuf

\* BlockBuf::new without the test of `dynamic`.
BlockBuf_new_ignoring_dynamic(lz77, dynamic) ==
    IF ~is_none(lz77)
    THEN CompressBuf_new("Dynamic", lz77[1])
    ELSE RawBuf_new

BlockBuf_new(lz77, dynamic) ==
    IF ~is_none(lz77)
    THEN IF dynamic
         THEN CompressBuf_new("Dynamic", lz77[1])
         ELSE CompressBuf_new("Fixed", lz77[1])
    ELSE RawBuf_new

BlockBuf_append(self, buf) ==
    IF self.variant = "Raw" THEN RawBuf_append(self, buf)
    ELSE CompressBuf_append(self, buf)

BlockBuf_len(self) ==
    IF self.variant = "Raw" THEN RawBuf_len(self) ELSE CompressBuf_len(self)

BlockBuf_flush(self, writer) ==
    IF self.variant = "Raw" THEN RawBuf_flush(self, writer)
    ELSE CompressBuf_flush(self, writer)

\* ---------------------------------------------------------------- Block

Block_new(options) ==
    [block_type |-> get_block_type(options),
     block_size |-> get_block_size(options),
     block_buf  |-> BlockBuf_new(options.lz77, options.dynamic_huffman)]

\* while self.block_buf.len() >= self.block_size { header; flush }
\* An iteration that succeeds and leaves the block buffer as it found it,
\* with no sink failure still to come, repeats for ever: the call does not
\* return.
\* The loop as an `if`: one block at most is cut per write.
Block_write_loop_once(self, writer) ==
    IF ~(BlockBuf_len(self.block_buf) >= self.block_size)
    THEN [self |-> self, writer |-> writer, result |-> Ok(0)]
    ELSE
        Try(self, BitWriter_write_bit(writer, FALSE), LAMBDA w1 :
        Try(self, BitWriter_write_bits(w1, 2, BlockTypeCode(self.block_type)), LAMBDA w2 :
        TryFlush(self, BlockBuf_flush(self.block_buf, w2), LAMBDA s3, w3 :
            [self |-> s3, writer |-> w3, result |-> Ok(0)])))

\* The loop with `>` for `>=`: a buffer of exactly block_size bytes stays.
RECURSIVE Block_write_loop_gt(_, _)
Block_write_loop_gt(self, writer) ==
    IF ~(BlockBuf_len(self.block_buf) > self.block_size)
    THEN [self |-> self, writer |-> writer, result |-> Ok(0)]
    ELSE
        Try(self, BitWriter_write_bit(writer, FALSE), LAMBDA w1 :
        Try(self, BitWriter_write_bits(w1, 2, BlockTypeCode(self.block_type)), LAMBDA w2 :
        TryFlush(self, BlockBuf_flush(self.block_buf, w2), LAMBDA s3, w3 :
            IF s3 = self /\ w3.failAt <= Len(w3.ops)
            THEN [self |-> s3, writer |-> w3, result |-> Diverges]
            ELSE Block_write_loop_gt(s3, w3))))

RECURSIVE Block_write_loop(_, _)
Block_write_loop(self, writer) ==
    IF ~(BlockBuf_len(self.block_buf) >= self.block_size)
    THEN [self |-> self, writer |-> writer, result |-> Ok(0)]
    ELSE
        Try(self, BitWriter_write_bit(writer, FALSE), LAMBDA w1 :
        Try(self, BitWriter_write_bits(w1, 2, BlockTypeCode(self.block_type)), LAMBDA w2 :
        TryFlush(self, BlockBuf_flush(self.block_buf, w2), LAMBDA s3, w3 :
            IF s3 = self /\ w3.failAt <= Len(w3.ops)
            THEN [self |-> s3, writer |-> w3, result |-> Diverges]
            ELSE Block_write_loop(s3, w3))))

Block_write(self, writer, buf) ==
    Block_write_loop([self EXCEPT !.block_buf = BlockBuf_append(@, buf)], writer)

\* Block::finish without the try! around the flush of the block buffer: the
\* final byte-align is attempted whether the flush failed or not.
Block_finish_without_try(self, writer) ==
    Try(self, BitWriter_write_bit(writer, TRUE), LAMBDA w1 :
    Try(self, BitWriter_write_bits(w1, 2, BlockTypeCode(self.block_type)), LAMBDA w2 :
        LET e == BlockBuf_flush(self.block_buf, w2)
            a == BitWriter_flush(e.writer)
        IN  [self   |-> [self EXCEPT !.block_buf = e.self],
             writer |-> a.writer,
             result |-> IF IsOk(e.result) THEN a.result ELSE e.result]))

\* Block::finish with the header of Block::write: the flag bit is 0.
Block_finish_not_final(self, writer) ==
    Try(self, BitWriter_write_bit(writer, FALSE), LAMBDA w1 :
    Try(self, BitWriter_write_bits(w1, 2, BlockTypeCode(self.block_type)), LAMBDA w2 :
    TryFlush(self, BlockBuf_flush(self.block_buf, w2), LAMBDA s3, w3 :
    Try(s3, BitWriter_flush(w3), LAMBDA w4 :
        [self |-> s3, writer |-> w4, result |-> Ok(0)]))))

Block_finish(self, writer) ==
    Try(self, BitWriter_write_bit(writer, TRUE), LAMBDA w1 :
    Try(self, BitWriter_write_bits(w1, 2, BlockTypeCode(self.block_type)), LAMBDA w2 :
    TryFlush(self, BlockBuf_flush(self.block_buf, w2), LAMBDA s3, w3 :
    Try(s3, BitWriter_flush(w3), LAMBDA w4 :
        [self |-> s3, writer |-> w4, result |-> Ok(0)]))))

\* -------------------------------------------------------------- Encoder

\* Encoder::with_options
with_options(options) == [writer |-> NewWriter, block |-> Block_new(options)]

\* The sink fails the failAt-th operation of the call that starts now.
Arm(writer, failAt) == [writer EXCEPT !.ops = <<>>, !.failAt = failAt]

\* write returning what Block::write returned instead of Ok(buf.len()).
Encoder_write_unit(self, buf) ==
    LET r == Block_write(self.block, self.writer, buf)
    IN  [self   |-> [writer |-> r.writer, block |-> r.self],
         result |-> r.result]

\* <Encoder as io::Write>::write
Encoder_write(self, buf) ==
    LET r == Block_write(self.block, self.writer, buf)
    IN  [self   |-> [writer |-> r.writer, block |-> r.self],
         result |-> IF IsOk(r.result) THEN Ok(BLen(buf)) ELSE r.result]

\* flush as self.writer.flush(): the bit writer's flush, not the sink's.
Encoder_flush_bit_writer(self) ==
    LET r == BitWriter_flush(self.writer)
    IN  [self |-> [self EXCEPT !.writer = r.writer], result |-> r.result]

\* <Encoder as io::Write>::flush
Encoder_flush(self) ==
    LET r == Inner_flush(self.writer)
    IN  [self |-> [self EXCEPT !.writer = r.writer], result |-> r.result]

\* finish with None in both arms of the match.
Encoder_finish_dropping_error(self) ==
    LET r == Block_finish(self.block, self.writer)
    IN  [inner |-> r.writer, error |-> None]

\* Encoder::finish: Finish::new(self.writer.into_inner(), error)
Encoder_finish(self) ==
    LET r == Block_finish(self.block, self.writer)
    IN  IF IsOk(r.result)
        THEN [inner |-> r.writer, error |-> None]
        ELSE [inner |-> r.writer, error |-> Some(r.result)]

\* ------------------------------------------------------------ the state

VARIABLES
    phase,      \* "options": the builder; "encoding": an Encoder exists;
                \* "hung": a write call is running and will not return;
                \* "finished": finish has consumed the encoder
    options,    \* the EncodeOptions being built
    encoder,    \* Some(Encoder) while one exists, None before and after
    finished,   \* Some(Finish) once finish has returned
    written,    \* all bytes passed to write so far, in call order
    nwrites,    \* number of write calls made
    failed,     \* whether a write or finish call has returned an error
    last        \* the last call: its name, its buffer, len() and the output
                \* length before it, len() right after its append, the sink
                \* operation that failed in it (0: none), its result

vars == <<phase, options, encoder, finished, written, nwrites, failed, last>>

\* The arguments of the block_size builder.
BlockSizes == 0..SmallLen

ByteA == 65

ByteB == 66

\* The buffers passed to write: the empty one, short runs of one byte, a
\* short buffer of two different bytes, and one longer than a stored block
\* can hold.
Bufs ==
    {<<>>, <<Run(ByteB, 1), Run(ByteA, 1)>>,
     <<Run(ByteB, MAX_NON_COMPRESSED_BLOCK_SIZE + 1)>>}
      \cup {<<Run(ByteA, n)>> : n \in 1..SmallLen}

\* The fault plans a call can meet.  The sink's fault is transient: it fails
\* one write or finish call of a run, and the calls after that one succeed.
FailPoints == IF failed THEN {0} ELSE 0..MaxFailAt

NoCall ==
    [op |-> "none", buf |-> <<>>, lenBefore |-> 0, outBefore |-> 0,
     lenAppended |-> 0, fault |-> 0, result |-> Ok(0)]

Enc == encoder[1]

Init ==
    /\ phase = "options"
    /\ options = EncodeOptions_new
    /\ encoder = None
    /\ finished = None
    /\ written = <<>>
    /\ nwrites = 0
    /\ failed = FALSE
    /\ last = NoCall

Builder(next) ==
    /\ phase = "options"
    /\ options' = next
    /\ UNCHANGED <<phase, encoder, finished, written, nwrites, failed, last>>

NoCompression == Builder(no_compression(options))

BlockSize == \E size \in BlockSizes : Builder(block_size(options, size))

DynamicHuffmanCodes == Builder(dynamic_huffman_codes(options))

FixedHuffmanCodes == Builder(fixed_huffman_codes(options))

WithOptions ==
    /\ phase = "options"
    /\ phase' = "encoding"
    /\ encoder' = Some(with_options(options))
    /\ UNCHANGED <<options, finished, written, nwrites, failed, last>>

\* The sink's fault plan is over when the call is: what stays of it is the
\* result of the call.
Disarm(writer) == [writer EXCEPT !.failAt = 0]

\* The fault plan failAt has struck when the call got as far as its
\* failAt-th sink operation.
CallRecord(op, buf, failAt, writer, result) ==
    [op |-> op, buf |-> buf,
     lenBefore |-> BlockBuf_len(Enc.block.block_buf),
     outBefore |-> Len(Enc.writer.out),
     lenAppended |-> BlockBuf_len(BlockBuf_append(Enc.block.block_buf, buf)),
     fault |-> IF failAt >= 1 /\ failAt <= Len(writer.ops) THEN failAt ELSE 0,
     result |-> result]

Write ==
    /\ phase = "encoding"
    /\ nwrites < MaxWrites
    /\ \E buf \in Bufs, failAt \in FailPoints :
         LET r == Encoder_write([Enc EXCEPT !.writer = Arm(@, failAt)], buf)
         IN  /\ encoder' = Some([r.self EXCEPT !.writer = Disarm(@)])
             /\ phase' = IF r.result.kind = "Diverges" THEN "hung" ELSE "encoding"
             /\ written' = BCat(written, buf)
             /\ failed' = (failed \/ r.result.kind = "Err")
             /\ last' = CallRecord("write", buf, failAt, r.self.writer, r.result)
    /\ nwrites' = nwrites + 1
    /\ UNCHANGED <<options, finished>>

Flush ==
    /\ phase = "encoding"
    /\ \E failAt \in 0..1 :
         LET r == Encoder_flush([Enc EXCEPT !.writer = Arm(@, failAt)])
         IN  /\ encoder' = Some([r.self EXCEPT !.writer = Disarm(@)])
             /\ last' = CallRecord("flush", <<>>, failAt, r.self.writer, r.result)
    /\ UNCHANGED <<phase, options, finished, written, nwrites, failed>>

Finish ==
    /\ phase = "encoding"
    /\ \E failAt \in FailPoints :
         LET f == Encoder_finish([Enc EXCEPT !.writer = Arm(@, failAt)])
             result == IF is_none(f.error) THEN Ok(0) ELSE f.error[1]
         IN  /\ finished' = Some([f EXCEPT !.inner = Disarm(@)])
             /\ failed' = (failed \/ result.kind = "Err")
             /\ last' = CallRecord("finish", <<>>, failAt, f.inner, result)
    /\ phase' = "finished"
    /\ encoder' = None
    /\ UNCHANGED <<options, written, nwrites>>

Next ==
    \/ NoCompression
    \/ BlockSize
    \/ DynamicHuffmanCodes
    \/ FixedHuffmanCodes
    \/ WithOptions
    \/ Write
    \/ Flush
    \/ Finish

Spec == Init /\ [][Next]_vars

\* ------------------------------------------------ reading the stream back
\* The DEFLATE stream format, as a decoder reads it: blocks of a final
\* flag, a 2-bit type and a body, up to the block flagged final.  A stored
\* body is a byte-align, LEN, NLEN = ~LEN and LEN bytes; a compressed body
\* is the table (dynamic only) and the coded symbols up to EndOfBlock.

\* The bytes a Share symbol stands for, appended to the bytes decoded so
\* far: `length` bytes, each a copy of the byte `distance` before it.
RECURSIVE CopyShare(_, _, _)
CopyShare(data, length, distance) ==
    IF length = 0 THEN data
    ELSE IF distance = 1
         THEN BCat(data, <<Run(BAt(data, BLen(data)), length)>>)
    ELSE CopyShare(BCat(data, <<Run(BAt(data, BLen(data) - distance + 1), 1)>>),
                   length - 1, distance)

\* What a decoder holds: whether the stream was well formed so far, the
\* bytes decoded, the number of blocks read, whether the last block read
\* was flagged final, and the place of the token after it.
NewStream == [ok |-> TRUE, data |-> <<>>, blocks |-> 0, final |-> FALSE, next |-> 1]

BadStream == [ok |-> FALSE, data |-> <<>>, blocks |-> 0, final |-> FALSE, next |-> 0]

DecodeSymbol(h, s) ==
    IF ~h.ok THEN h
    ELSE IF s.sym = "Literal" THEN [h EXCEPT !.data = BCat(@, <<Run(s.byte, 1)>>)]
    ELSE IF s.sym = "Share" /\ s.distance >= 1 /\ s.distance <= BLen(h.data)
         THEN [h EXCEPT !.data = CopyShare(@, s.length, s.distance)]
    ELSE BadStream

\* The symbols symbols[lo..hi], decoded in order (by halves, the first half
\* before the second).
RECURSIVE DecodeSymbols(_, _, _, _)
DecodeSymbols(h, symbols, lo, hi) ==
    IF lo > hi THEN h
    ELSE IF lo = hi THEN DecodeSymbol(h, symbols[lo])
    ELSE LET mid == (lo + hi) \div 2
             h1  == DecodeSymbols(h, symbols, lo, mid)
         IN  IF h1.ok THEN DecodeSymbols(h1, symbols, mid + 1, hi) ELSE h1

IsEndOfBlock(t) == t.k = "code" /\ t.v.sym = "EndOfBlock"

\* The block whose header starts at out[i].
InflateBlock(h, out, i) ==
    IF i + 1 > Len(out) \/ out[i].k # "bit" THEN BadStream
    ELSE IF out[i + 1].k # "bits" \/ out[i + 1].w # 2 THEN BadStream
    ELSE IF out[i + 1].v = 0
    THEN IF i + 5 > Len(out) THEN BadStream
         ELSE IF /\ out[i + 2].k = "align"
                 /\ out[i + 3].k = "u16"
                 /\ out[i + 4].k = "u16"
                 /\ out[i + 5].k = "bytes"
                 /\ out[i + 4].v = 65535 - out[i + 3].v
                 /\ BLen(out[i + 5].v) = out[i + 3].v
              THEN [h EXCEPT !.data = BCat(@, out[i + 5].v), !.blocks = @ + 1,
                             !.final = (out[i].v = 1), !.next = i + 6]
              ELSE BadStream
    ELSE IF out[i + 1].v \in {1, 2}
    THEN LET first == IF out[i + 1].v = 2 THEN i + 3 ELSE i + 2
             ends  == {j \in first..Len(out) : IsEndOfBlock(out[j])}
             end   == CHOOSE j \in ends : \A k \in ends : j <= k
         IN  IF out[i + 1].v = 2 /\ (i + 2 > Len(out) \/ out[i + 2].k # "table")
             THEN BadStream
             ELSE IF ends = {} \/ \E j \in first..(end - 1) : out[j].k # "code"
             THEN BadStream
             ELSE LET d == DecodeSymbols(h, [j \in 1..(end - first) |-> out[first + j - 1].v],
                                         1, end - first)
                  IN  IF d.ok THEN [d EXCEPT !.blocks = @ + 1,
                                             !.final = (out[i].v = 1), !.next = end + 1]
                      ELSE BadStream
    ELSE BadStream

\* The blocks from out[i] on, up to the block flagged final or to the end
\* of the stream.
RECURSIVE InflateFrom(_, _, _)
InflateFrom(h, out, i) ==
    IF i > Len(out) THEN h
    ELSE LET b == InflateBlock(h, out, i)
         IN  IF ~b.ok \/ b.final THEN b ELSE InflateFrom(b, out, b.next)

\* decode(stream)
Inflate(out) == InflateFrom(NewStream, out, 1)

\* The places of the block headers of a stream, and its final flags.
Headers(out) == {i \in 1..Len(out) : out[i].k = "bit"}

FinalHeaders(out) == {i \in Headers(out) : out[i].v = 1}

\* ---------------------------------------------------------------- claims

\* The stream a finished run has left in the sink.
FinishedOut == finished[1].inner.out

FinishedOk == phase = "finished" /\ is_none(finished[1].error)

\* C1: lossless delivery.  After writes that all succeeded and a successful
\* finish, with block_size >= 1, the stream decodes to exactly the bytes
\* passed to write, in order.
C1_Lossless ==
    (FinishedOk /\ ~failed /\ options.block_size >= 1)
        => LET d == Inflate(FinishedOut) IN d.ok /\ d.final /\ d.data = written

\* A run of two writes in a compressed mode whose second write cut a block,
\* finished successfully.
C1_Witness ==
    /\ FinishedOk /\ ~failed
    /\ nwrites = 2
    /\ get_block_type(options) # "Raw"
    /\ Inflate(FinishedOut).blocks >= 2
    /\ BLen(written) >= 2


\* The stream written so far, and the sink operations of the last call.
CurWriter ==
    IF phase = "finished" THEN finished[1].inner
    ELSE IF encoder # None THEN Enc.writer
    ELSE NewWriter

CurOut == CurWriter.out

\* The tokens the last call has written.
Emitted == SubSeq(CurOut, last.outBefore + 1, Len(CurOut))

\* C2: final-block marker.  No block written by write is flagged final; a
\* stream ended by a successful finish has exactly one block flagged final,
\* the last one, written by that finish; and finish leaves no encoder
\* behind to write after it.
C2_FinalMarker ==
    /\ phase \in {"encoding", "hung"} => FinalHeaders(CurOut) = {}
    /\ FinishedOk =>
          /\ Cardinality(FinalHeaders(CurOut)) = 1
          /\ \A i \in FinalHeaders(CurOut) :
                /\ \A j \in Headers(CurOut) : j <= i
                /\ i > last.outBefore
    /\ phase = "finished" =>
          /\ encoder = None
          /\ Cardinality(FinalHeaders(CurOut)) <= 1
          /\ \A i \in FinalHeaders(CurOut) : i > last.outBefore

\* A finished stream of a non-final block and the final one.
C2_Witness ==
    /\ FinishedOk
    /\ Cardinality(Headers(CurOut)) >= 2
    /\ Cardinality(FinalHeaders(CurOut)) = 1

\* C3: every write call returns.
C3_WriteReturns == phase # "hung"

\* C4: a write of an empty buffer leaves len() as it was and writes nothing.
C4_EmptyWriteNoEffect ==
    (last.op = "write" /\ last.buf = <<>>)
        => /\ BlockBuf_len(Enc.block.block_buf) = last.lenBefore
           /\ Len(CurOut) = last.outBefore

Compressed == encoder # None /\ Enc.block.block_type \in {"Fixed", "Dynamic"}

\* C5: threshold boundary, compressed modes, block_size = N.  A write that
\* leaves fewer than N bytes appended since the last flush writes nothing;
\* a write that brings them from fewer than N to exactly N writes, when it
\* returns Ok, exactly one block, not flagged final, and empties the buffer.
C5_Threshold ==
    (Compressed /\ last.op = "write")
        => /\ last.lenAppended < Enc.block.block_size
              => /\ Emitted = <<>>
                 /\ BlockBuf_len(Enc.block.block_buf) = last.lenAppended
           /\ ( /\ last.lenBefore < Enc.block.block_size
                /\ last.lenAppended = Enc.block.block_size
                /\ IsOk(last.result) )
              => /\ Cardinality(Headers(Emitted)) = 1
                 /\ FinalHeaders(Emitted) = {}
                 /\ Inflate(Emitted).blocks = 1
                 /\ BlockBuf_len(Enc.block.block_buf) = 0

\* The second of two writes of one byte reaches a block size of two.
C5_Witness ==
    /\ Compressed /\ last.op = "write" /\ IsOk(last.result)
    /\ Enc.block.block_size = 2
    /\ last.lenBefore = 1
    /\ last.lenAppended = 2
    /\ Cardinality(Headers(Emitted)) = 1

\* The stored blocks of a stream: the places of their payloads.
Payloads(out) == {i \in 1..Len(out) : out[i].k = "bytes"}

\* C6: raw-mode block splitting.  Every stored block written has
\* LEN <= 65535, NLEN the 16-bit complement of LEN (LEN + NLEN = 65535) and
\* exactly LEN payload bytes; and an input of more than 65535 bytes, written
\* and finished without a failure, is more than one stored block.
C6_RawSplit ==
    /\ \A i \in Payloads(CurOut) :
          /\ i >= 3
          /\ CurOut[i - 2].k = "u16" /\ CurOut[i - 1].k = "u16"
          /\ CurOut[i - 2].v >= 0 /\ CurOut[i - 2].v <= 65535
          /\ CurOut[i - 1].v >= 0 /\ CurOut[i - 1].v <= 65535
          /\ CurOut[i - 2].v + CurOut[i - 1].v = 65535
          /\ BLen(CurOut[i].v) = CurOut[i - 2].v
    /\ ( /\ FinishedOk /\ ~failed
         /\ get_block_type(options) = "Raw"
         /\ BLen(written) > MAX_NON_COMPRESSED_BLOCK_SIZE )
        => Cardinality(Payloads(CurOut)) > 1

\* A raw stream of more than 65535 bytes, finished: it has a stored block of
\* 65535 bytes and another one.
C6_Witness ==
    /\ FinishedOk /\ ~failed
    /\ get_block_type(options) = "Raw"
    /\ BLen(written) > MAX_NON_COMPRESSED_BLOCK_SIZE
    /\ \E i \in Payloads(CurOut) : BLen(CurOut[i].v) = MAX_NON_COMPRESSED_BLOCK_SIZE
    /\ Cardinality(Payloads(CurOut)) >= 2

Max(a, b) == IF a >= b THEN a ELSE b

Len_now == BlockBuf_len(Enc.block.block_buf)

\* No write or finish call before the last call has failed.
NoEarlierFault == ~failed \/ last.fault > 0

Accepted ==
    LET d == Inflate(CurOut)
        b == Enc.block.block_buf
    IN  IF b.variant = "Raw" THEN BCat(d.data, b.buf)
        ELSE BCat(DecodeSymbols(d, b.buf, 1, Len(b.buf)).data, b.lz77.pending)

\* C8: no short write.  A write that returns Ok(n) has n = buf.len(), and
\* with it every byte written so far is in a block of the stream or in the
\* block buffer; a write returns an error only when an operation of the
\* sink failed in it, and the error is that operation's.
C8_NoShortWrite ==
    last.op = "write"
        => /\ IsOk(last.result)
                => /\ last.result.n = BLen(last.buf)
                   /\ last.fault = 0
                   /\ ~failed => Inflate(CurOut).ok /\ Accepted = written
           /\ last.result.kind = "Err"
                => /\ last.fault > 0
                   /\ last.result.op = CurWriter.ops[last.fault]

\* A second successful write whose bytes are partly in a block written and
\* partly still buffered.
C8_Witness ==
    /\ last.op = "write" /\ IsOk(last.result) /\ ~failed
    /\ nwrites = 2
    /\ BLen(last.buf) >= 2
    /\ last.result.n = BLen(last.buf)
    /\ Emitted # <<>>
    /\ Len_now > 0

\* C9: finish always hands the sink back.  A finish step leaves a Finish
\* that holds the sink, with everything written before the call and what
\* the call wrote, and no encoder; its error is None when no operation
\* failed and the error of the failed operation otherwise; and nothing
\* happens after finish.
C9_FinishReturnsSink ==
    [][ /\ phase # "finished"
        /\ phase' = "finished"
             => /\ phase = "encoding"
                /\ encoder' = None
                /\ finished' # None
                /\ last'.op = "finish"
                /\ LET f == finished'[1]
                   IN  /\ Len(f.inner.out) >= Len(Enc.writer.out)
                       /\ SubSeq(f.inner.out, 1, Len(Enc.writer.out)) = Enc.writer.out
                       /\ last'.fault = 0 <=> is_none(f.error)
                       /\ last'.fault = 0 => Len(f.inner.ops) >= 4
                       /\ last'.fault > 0
                            => f.error = Some(Err(f.inner.ops[last'.fault], last'.fault))
      ]_vars

\* A finish that failed after its header: the sink is handed back with the
\* error and with the part of the block that was written.
C9_Witness ==
    /\ phase = "finished"
    /\ ~is_none(finished[1].error)
    /\ last.fault >= 3
    /\ Len(finished[1].inner.out) > last.outBefore

\* C10: error propagation.  When a sink operation fails in a call, it is the
\* last operation the call attempts, the call returns its error, and
\* the call has written what the operations before it wrote and no more; a
\* call in which no operation fails returns no error.
C10_ErrorPropagation ==
    /\ last.fault > 0
         => /\ Len(CurWriter.ops) = last.fault
            /\ last.result = Err(CurWriter.ops[last.fault], last.fault)
            /\ Len(Emitted) <= last.fault - 1
    /\ last.fault = 0 => last.result.kind # "Err"

\* A call that failed while coding the symbols of a block, after the
\* header of the block.
C10_Witness ==
    /\ last.fault >= 3
    /\ last.op \in {"write", "finish"}
    /\ CurWriter.ops[last.fault] = "encode"
    /\ Len(Emitted) >= 2

\* The coded symbols of a stream, in order.
RECURSIVE Codes(_)
Codes(out) ==
    IF out = <<>> THEN <<>>
    ELSE IF Head(out).k = "code" THEN <<Head(out).v>> \o Codes(Tail(out))
    ELSE Codes(Tail(out))

\* C11: empty input.  A run whose calls all succeeded and that wrote no byte
\* at all leaves, once finished, exactly one block, flagged final, that
\* decodes to nothing: a stored block of LEN 0 in raw mode, a compressed
\* block whose only symbol is EndOfBlock in fixed and dynamic mode.
C11_EmptyInput ==
    (FinishedOk /\ ~failed /\ BLen(written) = 0)
        => /\ Headers(CurOut) = {1}
           /\ FinalHeaders(CurOut) = {1}
           /\ LET d == Inflate(CurOut)
              IN  d.ok /\ d.final /\ d.blocks = 1 /\ d.data = <<>>
                    /\ d.next = Len(CurOut)
           /\ CurOut[Len(CurOut)].k = "align"
           /\ IF get_block_type(options) = "Raw"
              THEN /\ Len(CurOut) = 7
                   /\ CurOut[4] = Token("u16", 16, 0)
                   /\ CurOut[5] = Token("u16", 16, 65535)
                   /\ CurOut[6] = Token("bytes", 8, <<>>)
              ELSE Codes(CurOut) = <<EndOfBlock>>

\* Two empty writes, then finish, in raw mode.
C11_Witness ==
    /\ FinishedOk /\ ~failed
    /\ nwrites = 2
    /\ written = <<>>
    /\ get_block_type(options) = "Raw"
    /\ Len(CurOut) = 7

\* The type code of the configuration: 0 without a match-finder, else 2
\* with the dynamic flag and 1 without it.
ResolvedCode ==
    IF is_none(options.lz77) THEN 0
    ELSE IF options.dynamic_huffman THEN 2
    ELSE 1

\* C12: block header.  Every header is one flag bit followed by a 2-bit
\* type code; the code is 0 (raw), 1 (fixed) or 2 (dynamic), never 3, and
\* it is the code of the type resolved at construction in every block of
\* the stream.  (A header cut short by a failing sink has its flag bit
\* only; the next header follows it.)
C12_BlockHeader ==
    /\ \A i \in 1..Len(CurOut) :
          /\ CurOut[i].k = "bits"
               => /\ i >= 2 /\ CurOut[i - 1].k = "bit"
                  /\ CurOut[i].w = 2
                  /\ CurOut[i].v \in {0, 1, 2}
                  /\ CurOut[i].v = ResolvedCode
          /\ CurOut[i].k = "bit"
               => /\ CurOut[i].w = 1
                  /\ CurOut[i].v \in {0, 1}
                  /\ i < Len(CurOut)
                       => \/ CurOut[i + 1].k = "bits"
                          \/ failed /\ CurOut[i + 1].k = "bit"
                  /\ ~failed => i < Len(CurOut)
    /\ encoder # None => BlockTypeCode(Enc.block.block_type) = ResolvedCode

\* A finished fixed-code stream of two blocks.
C12_Witness ==
    /\ FinishedOk
    /\ ResolvedCode = 1
    /\ Cardinality(Headers(CurOut)) >= 2
    /\ \A i \in Headers(CurOut) : CurOut[i + 1] = Token("bits", 2, 1)

\* C13: options resolution.  The options start with the default
\* match-finder, the dynamic flag set and the default block size.  A
\* builder call changes its own field only: no_compression removes the
\* match-finder and no call brings one back, block_size(n) sets n, the two
\* Huffman calls set and clear the dynamic flag.  The encoder built from
\* the options has type Raw exactly when there is no match-finder, else
\* Dynamic with the flag and Fixed without it; block size min(n, 65535)
\* when Raw and n otherwise; and the BlockBuf variant of its type.
C13_OptionsResolution ==
    /\ ( /\ ~is_none(options.lz77)
         /\ options.dynamic_huffman
         /\ options.block_size = DEFAULT_BLOCK_SIZE )
    /\ [][ /\ is_none(options.lz77) => is_none(options'.lz77)
           /\ NoCompression
                => /\ is_none(options'.lz77)
                   /\ options'.block_size = options.block_size
                   /\ options'.dynamic_huffman = options.dynamic_huffman
           /\ \A n \in BlockSizes :
                Builder(block_size(options, n))
                  => /\ options'.block_size = n
                     /\ options'.lz77 = options.lz77
                     /\ options'.dynamic_huffman = options.dynamic_huffman
           /\ DynamicHuffmanCodes
                => /\ options'.dynamic_huffman
                   /\ options'.lz77 = options.lz77
                   /\ options'.block_size = options.block_size
           /\ FixedHuffmanCodes
                => /\ ~options'.dynamic_huffman
                   /\ options'.lz77 = options.lz77
                   /\ options'.block_size = options.block_size
           /\ WithOptions
                => LET block == encoder'[1].block
                       raw   == is_none(options.lz77)
                   IN  /\ block.block_type = "Raw" <=> raw
                       /\ ~raw => block.block_type =
                                    IF options.dynamic_huffman THEN "Dynamic" ELSE "Fixed"
                       /\ block.block_size =
                            IF raw THEN Min(options.block_size, MAX_NON_COMPRESSED_BLOCK_SIZE)
                            ELSE options.block_size
                       /\ block.block_buf.variant = block.block_type
                       /\ ~raw => block.block_buf.huffman = block.block_type
                       /\ BlockBuf_len(block.block_buf) = 0
         ]_vars

\* An encoder built after fixed_huffman_codes and no_compression with the
\* default block size: Raw, with a block size of 65535.
C13_Witness ==
    /\ encoder # None
    /\ is_none(options.lz77) /\ ~options.dynamic_huffman
    /\ options.block_size = DEFAULT_BLOCK_SIZE
    /\ Enc.block.block_type = "Raw"
    /\ Enc.block.block_size = MAX_NON_COMPRESSED_BLOCK_SIZE
    /\ Enc.block.block_buf.variant = "Raw"

\* The LENs of the stored payloads of a stream, in order.
RECURSIVE PayloadLens(_)
PayloadLens(out) ==
    IF out = <<>> THEN <<>>
    ELSE IF Head(out).k = "bytes"
         THEN <<BLen(Head(out).v)>> \o PayloadLens(Tail(out))
    ELSE PayloadLens(Tail(out))

RECURSIVE Sum(_)
Sum(s) == IF s = <<>> THEN 0 ELSE Head(s) + Sum(Tail(s))

\* C14 as stated: append adds exactly the count of the bytes appended,
\* len() stays as append left it when the write flushes nothing, and len()
\* is zero right after a successful flush (a write that returns Ok after
\* flushing returns right after its last flush).
C14_LenInvariant ==
    (last.op = "write" /\ IsOk(last.result))
        => /\ last.lenAppended = last.lenBefore + BLen(last.buf)
           /\ Headers(Emitted) = {} => Len_now = last.lenAppended
           /\ Headers(Emitted) # {} => Len_now = 0

\* C14, as the code has it: append adds exactly the count of the bytes
\* appended and len() does not change without a flush; a successful flush
\* leaves len() zero in the compressed modes, and in raw mode it takes
\* min(len(), 65535) bytes off len(), which leaves zero only when at most
\* 65535 bytes were buffered.
C14_LenInvariantAmended ==
    (last.op = "write" /\ IsOk(last.result))
        => /\ last.lenAppended = last.lenBefore + BLen(last.buf)
           /\ Headers(Emitted) = {} => Len_now = last.lenAppended
           /\ (Headers(Emitted) # {} /\ Compressed) => Len_now = 0
           /\ (Headers(Emitted) # {} /\ ~Compressed)
                => LET lens   == PayloadLens(Emitted)
                       before == Len_now + lens[Len(lens)]
                   IN  /\ Len(lens) = Cardinality(Headers(Emitted))
                       /\ Len_now = last.lenAppended - Sum(lens)
                       /\ lens[Len(lens)] = Min(before, MAX_NON_COMPRESSED_BLOCK_SIZE)
                       /\ Len_now = 0 <=> before <= MAX_NON_COMPRESSED_BLOCK_SIZE

\* A raw write of 65536 bytes that flushed once: one byte is buffered
\* right after the flush.
C14_Witness ==
    /\ last.op = "write" /\ IsOk(last.result)
    /\ ~Compressed
    /\ last.lenAppended = MAX_NON_COMPRESSED_BLOCK_SIZE + 1
    /\ PayloadLens(Emitted) = <<MAX_NON_COMPRESSED_BLOCK_SIZE>>
    /\ Len_now = 1

\* C15: compressed block symbol sequence.  In every compressed block body
\* written, EndOfBlock comes exactly once and is the last symbol coded: no
\* coded symbol follows an EndOfBlock before the next header
\* (block_size >= 1).
C15_SymbolSequence ==
    options.block_size >= 1
        => \A i \in 1..Len(CurOut) :
             (IsEndOfBlock(CurOut[i]) /\ i < Len(CurOut))
                => CurOut[i + 1].k # "code"

\* C16: post-write threshold.  With block_size >= 1, a write that returns
\* Ok leaves len() below the effective block size, so at most 65534 bytes
\* in raw mode; hence on a raw run whose calls all succeeded the one flush
\* of finish writes all that was buffered, in a block of at most 65534
\* bytes, and the stream holds every byte written.
C16_PostWriteThreshold ==
    /\ (last.op = "write" /\ IsOk(last.result) /\ Enc.block.block_size >= 1)
         => /\ Len_now < Enc.block.block_size
            /\ Enc.block.block_type = "Raw"
                 => /\ Enc.block.block_size <= MAX_NON_COMPRESSED_BLOCK_SIZE
                    /\ Len_now <= MAX_NON_COMPRESSED_BLOCK_SIZE - 1
    /\ (FinishedOk /\ ~failed /\ get_block_type(options) = "Raw")
         => /\ last.lenBefore <= MAX_NON_COMPRESSED_BLOCK_SIZE - 1
            /\ PayloadLens(Emitted) = <<last.lenBefore>>
            /\ Sum(PayloadLens(CurOut)) = BLen(written)
            /\ Inflate(CurOut).data = written

\* A raw run with the default block size: 65536 bytes written, one byte
\* left for finish.
C16_Witness ==
    /\ FinishedOk /\ ~failed
    /\ get_block_type(options) = "Raw"
    /\ options.block_size = DEFAULT_BLOCK_SIZE
    /\ BLen(written) > MAX_NON_COMPRESSED_BLOCK_SIZE
    /\ last.lenBefore >= 1
    /\ PayloadLens(Emitted) = <<last.lenBefore>>

\* The payload sizes of the stored blocks that the loop of Block::write
\* cuts from L buffered bytes with a block size of size >= 1.
RECURSIVE RawBlocks(_, _)
RawBlocks(L, size) ==
    IF L < size THEN <<>>
    ELSE LET n == Min(L, MAX_NON_COMPRESSED_BLOCK_SIZE)
         IN  <<n>> \o RawBlocks(L - n, size)

\* The bytes of the blocks of the stream up to its first n tokens.
DataUpTo(n) == Inflate(SubSeq(CurOut, 1, n)).data

\* C17: blocks per write, block_size >= 1, for a write that returns Ok.
\* Compressed modes: the write cuts at most one block, not flagged final,
\* and cuts one exactly when len() after append has reached block_size;
\* that block holds all bytes appended since the previous flush, however
\* many (when no earlier call failed).  Raw mode: the write cuts blocks of
\* min(L, 65535) bytes, L being what is buffered at that point, until
\* fewer than block_size bytes are left.
C17_BlocksPerWrite ==
    (last.op = "write" /\ IsOk(last.result) /\ Enc.block.block_size >= 1)
        => IF Compressed
           THEN /\ Cardinality(Headers(Emitted)) <= 1
                /\ FinalHeaders(Emitted) = {}
                /\ Headers(Emitted) # {}
                     <=> last.lenAppended >= Enc.block.block_size
                /\ (Headers(Emitted) # {} /\ ~failed)
                     => /\ Len_now = 0
                        /\ Inflate(CurOut).ok
                        /\ BLen(DataUpTo(Len(CurOut)))
                             = BLen(DataUpTo(last.outBefore)) + last.lenAppended
                        /\ DataUpTo(Len(CurOut)) = written
           ELSE /\ PayloadLens(Emitted)
                     = RawBlocks(last.lenAppended, Enc.block.block_size)
                /\ Cardinality(Headers(Emitted)) = Len(PayloadLens(Emitted))
                /\ Len_now = last.lenAppended - Sum(PayloadLens(Emitted))

\* A compressed write of 65536 bytes with a block size of 1, after a
\* write that cut a block: one block of 65536 bytes.
C17_Witness ==
    /\ last.op = "write" /\ IsOk(last.result) /\ ~failed
    /\ Compressed
    /\ Enc.block.block_size = 1
    /\ last.outBefore > 0
    /\ last.lenAppended = MAX_NON_COMPRESSED_BLOCK_SIZE + 1
    /\ Cardinality(Headers(Emitted)) = 1
    /\ Len_now = 0

\* The length in bits of a raw stream after its first n tokens: a flag is 1
\* bit, a type code 2, a byte-align pads with zero bits up to the next
\* multiple of 8, LEN and NLEN are 16 bits each, a payload 8 per byte.
RECURSIVE BitLen(_, _)
BitLen(out, n) ==
    IF n = 0 THEN 0
    ELSE LET before == BitLen(out, n - 1)
             t      == out[n]
         IN  IF t.k = "align" THEN ((before + 7) \div 8) * 8
             ELSE IF t.k = "bytes" THEN before + 8 * BLen(t.v)
             ELSE before + t.w

\* C18: raw-mode alignment and size.  On a raw run whose calls all
\* succeeded, every block header starts at a byte boundary, its 3 bits are
\* padded with 5 zero bits before LEN, and LEN, NLEN and the payload start
\* at byte boundaries; once finished, the stream is byte-aligned and its
\* length in bytes is the count of the bytes written plus 5 for each of
\* its blocks.
C18_RawAlignment ==
    (get_block_type(options) = "Raw" /\ ~failed /\ phase \in {"encoding", "finished"})
        => /\ \A i \in 1..Len(CurOut) :
                /\ CurOut[i].k \in {"bit", "u16", "bytes"}
                     => BitLen(CurOut, i - 1) % 8 = 0
                /\ (CurOut[i].k = "align" /\ CurOut[i - 1].k = "bits")
                     => /\ BitLen(CurOut, i - 1) % 8 = 3
                        /\ BitLen(CurOut, i) = BitLen(CurOut, i - 1) + 5
           /\ phase = "finished"
                => /\ BitLen(CurOut, Len(CurOut)) % 8 = 0
                   /\ BitLen(CurOut, Len(CurOut))
                        = 8 * (BLen(written) + 5 * Cardinality(Headers(CurOut)))

\* A finished raw stream of three blocks for 65537 bytes.
C18_Witness ==
    /\ FinishedOk /\ ~failed
    /\ get_block_type(options) = "Raw"
    /\ Cardinality(Headers(CurOut)) = 3
    /\ BLen(written) = MAX_NON_COMPRESSED_BLOCK_SIZE + 2
    /\ BitLen(CurOut, Len(CurOut)) = 8 * (MAX_NON_COMPRESSED_BLOCK_SIZE + 2 + 15)

\* The stored payloads of a stream, one after the other.
RECURSIVE PayloadBytes(_)
PayloadBytes(out) ==
    IF out = <<>> THEN <<>>
    ELSE IF Head(out).k = "bytes" THEN BCat(Head(out).v, PayloadBytes(Tail(out)))
    ELSE PayloadBytes(Tail(out))

\* The sink operations of RawBuf::flush: byte-align, LEN, NLEN, payload.
RawFlushOps == 1..4

\* C19: raw flush is all-or-nothing on the buffer.  For the buffer of
\* every reachable raw encoder, extended by any write buffer: a flush in
\* which the byte-align, the LEN, the NLEN or the payload write fails
\* leaves the buffer exactly as it was, and a flush that succeeds removes
\* exactly the first min(len, 65535) bytes, which are the payload it
\* wrote, and keeps the rest in order.  So, whatever calls failed, the
\* payloads written followed by the buffer are the bytes written, and a
\* write that failed holds what it appended less the payloads it wrote.
C19_RawFlushAllOrNothing ==
    (encoder # None /\ Enc.block.block_type = "Raw")
        => /\ \A x \in Bufs :
                LET a    == RawBuf_append(Enc.block.block_buf, x)
                    size == Min(BLen(a.buf), MAX_NON_COMPRESSED_BLOCK_SIZE)
                    ok   == RawBuf_flush(a, Arm(Enc.writer, 0))
                IN  /\ IsOk(ok.result)
                    /\ RawBuf_len(ok.self) = RawBuf_len(a) - size
                    /\ BCat(BTake(a.buf, size), ok.self.buf) = a.buf
                    /\ ok.writer.out[Len(ok.writer.out)].v = BTake(a.buf, size)
                    /\ \A failAt \in RawFlushOps :
                         LET r == RawBuf_flush(a, Arm(Enc.writer, failAt))
                         IN  /\ r.result.kind = "Err"
                             /\ r.self = a
                             /\ RawBuf_len(r.self) = RawBuf_len(a)
           /\ BCat(PayloadBytes(CurOut), Enc.block.block_buf.buf) = written
           /\ (last.op = "write" /\ last.fault > 0)
                => Len_now = last.lenAppended - Sum(PayloadLens(Emitted))

\* A raw write of 65536 bytes whose payload write failed: all 65536 bytes
\* are still buffered.
C19_Witness ==
    /\ encoder # None /\ Enc.block.block_type = "Raw"
    /\ last.op = "write" /\ last.fault > 0
    /\ CurWriter.ops[last.fault] = "write_all"
    /\ Len_now = last.lenAppended
    /\ Len_now > MAX_NON_COMPRESSED_BLOCK_SIZE

\* C20: Encoder::flush only flushes the sink.  A flush step, failing or
\* not, leaves the block (buffer contents, len(), type, size) and all that
\* was written as they were, writes no header, no body and no padding, and
\* its one operation is the flush of the sink; after it the bytes buffered
\* are still buffered and still unwritten, and the encoder can go on.
C20_FlushFrame ==
    /\ [](last.op = "flush"
            => /\ Emitted = <<>>
               /\ Len_now = last.lenBefore
               /\ CurWriter.ops = <<"inner_flush">>
               /\ phase = "encoding")
    /\ [][ Flush
             => /\ encoder'[1].block = Enc.block
                /\ encoder'[1].writer.out = Enc.writer.out
                /\ last'.op = "flush"
                /\ written' = written
                /\ phase' = phase
         ]_vars

\* A flush with a byte buffered below the threshold: nothing is written.
C20_Witness ==
    /\ last.op = "flush" /\ IsOk(last.result)
    /\ Len_now > 0
    /\ Len_now < Enc.block.block_size
    /\ BLen(written) > 0
    /\ CurOut = <<>>

=============================================================================
